---- MODULE Spec2Model ----
(***************************************************************************)
(* Model of generate-data/nlp/main.py: the multiword-term detector         *)
(* (pattern compiler, lemma-sequence index, dual matcher) and the batch    *)
(* driver process_sentences.                                               *)
(*                                                                         *)
(* Token positions are 1-based here (Python: 0-based); make_id converts.   *)
(* Surface forms are sequences of one-character strings, so that lower(),  *)
(* startswith() and character offsets are computed, not assumed.           *)
(***************************************************************************)
EXTENDS Integers, Sequences, FiniteSets, TLC

VARIABLES
    pc,               \* position of the program
    language_code,    \* MultiwordTermDetector.language_code
    token_identity,   \* whether the build hands out one Token object per position
    multiword_terms,  \* the vocabulary, each term with the annotator's parse of it
    lemma_to_terms,   \* lemma tuple -> list of original terms
    dep_matcher,      \* DependencyMatcher registry: <<[key, patterns]>> in add order
    phrase_matcher,   \* PhraseMatcher registry: the set of lemma sequences
    sent_doc,         \* the annotated sentence being scanned
    detected,         \* DetectedTerms for sent_doc
    dep_found,        \* the Terms of dep_matches, in discovery order
    infile,           \* process_sentences: the input file
    lineno,           \* process_sentences: lines consumed
    batch_sentences,  \* process_sentences: the pending batch
    outfile           \* process_sentences: records written

vars == <<pc, language_code, token_identity, multiword_terms, lemma_to_terms,
          dep_matcher, phrase_matcher, sent_doc, detected, dep_found,
          infile, lineno, batch_sentences, outfile>>

detectorVars == <<language_code, token_identity, multiword_terms, lemma_to_terms,
                  dep_matcher, phrase_matcher>>
matchVars == <<sent_doc, detected, dep_found>>
driverVars == <<infile, lineno, batch_sentences, outfile>>

-----------------------------------------------------------------------------
(* Bounds of the model *)

MaxTermLen == 3     \* tokens of a vocabulary term (compiler specification)
MaxSentLen == 3     \* tokens of a scanned sentence
MaxTerms == 2       \* terms of the vocabulary (matcher specification)
MaxBatches == 1     \* full batches of the sentences file (driver specification)

-----------------------------------------------------------------------------
(* Strings and tokens *)

Range(s) == {s[i] : i \in DOMAIN s}

\* str.lower() on one character
LowerChar(c) ==
    CASE c = "N" -> "n"
      [] c = "E" -> "e"
      [] c = "M" -> "m"
      [] c = "I" -> "i"
      [] OTHER -> c

\* str.lower()
Lower(s) == [i \in DOMAIN s |-> LowerChar(s[i])]

\* str.startswith("-")
StartsWithHyphen(s) == Len(s) >= 1 /\ s[1] = "-"

RECURSIVE Concat(_)
Concat(ss) == IF ss = <<>> THEN <<>> ELSE Head(ss) \o Concat(Tail(ss))

\* Token.text_with_ws
TextWithWs(tok) == IF tok.ws THEN tok.text \o <<" ">> ELSE tok.text

\* str(doc)
DocStr(doc) == Concat([i \in DOMAIN doc |-> TextWithWs(doc[i])])

\* Token.idx: the character offset of token i
RECURSIVE Idx(_, _)
Idx(doc, i) == IF i = 1 THEN 0 ELSE Idx(doc, i - 1) + Len(TextWithWs(doc[i - 1]))

\* tuple(token.lemma_ for token in doc[a..b])
LemmaTuple(doc, a, b) == [k \in 1..(b - a + 1) |-> doc[a + k - 1].lemma]

\* token.children: the dependents of token i, in sentence order
RECURSIVE ChildrenFrom(_, _, _)
ChildrenFrom(doc, i, j) ==
    IF j > Len(doc) THEN <<>>
    ELSE (IF j # i /\ doc[j].head = i THEN <<j>> ELSE <<>>) \o ChildrenFrom(doc, i, j + 1)

Children(doc, i) == ChildrenFrom(doc, i, 1)

\* the k-th governor of token i (the parse root is its own head)
RECURSIVE HeadPow(_, _, _)
HeadPow(doc, i, k) == IF k = 0 THEN i ELSE HeadPow(doc, doc[i].head, k - 1)

\* the root of the parse tree of token i
TreeRoot(doc, i) == HeadPow(doc, i, Len(doc))

\* Token.is_ancestor: a is a proper ancestor of d
IsAncestor(doc, a, d) ==
    a # d /\ \E k \in 1..Len(doc) : HeadPow(doc, d, k) = a

\* token.subtree: the token and all its descendants
Subtree(doc, i) == {i} \cup {j \in DOMAIN doc : IsAncestor(doc, i, j)}

\* every token reaches a self-headed token: what the parser always produces
RECURSIVE Up(_, _, _)
Up(heads, j, m) == IF m = 0 THEN j ELSE Up(heads, heads[j], m - 1)

IsForest(heads) ==
    \A i \in DOMAIN heads :
        \E k \in 0..Len(heads) : heads[Up(heads, i, k)] = Up(heads, i, k)

-----------------------------------------------------------------------------
(* The annotator (spaCy pipeline) is a black box; its outputs are drawn     *)
(* from a lexicon of annotated words and every head assignment it can give. *)

Word(text, ws, lemma, pos, dep) ==
    [text |-> text, ws |-> ws, lemma |-> lemma, pos |-> pos, dep |-> dep]

W_ne     == Word(<<"n", "e">>, TRUE, "ne", "ADV", "advmod")
W_pas    == Word(<<"p", "a", "s">>, TRUE, "pas", "ADV", "advmod")
W_nulle  == Word(<<"n", "u", "l", "l", "e">>, TRUE, "nulle", "DET", "det")
W_part   == Word(<<"p", "a", "r", "t">>, TRUE, "part", "NOUN", "obl")
W_c      == Word(<<"c", "'">>, FALSE, "ce", "PRON", "nsubj")
W_est    == Word(<<"e", "s", "t">>, TRUE, "être", "AUX", "cop")
W_hyphen == Word(<<"-">>, TRUE, "-", "PUNCT", "punct")
W_ce     == Word(<<"-", "c", "e">>, TRUE, "ce", "PRON", "nsubj")

W_Il     == Word(<<"I", "l">>, TRUE, "il", "PRON", "nsubj")
W_mange  == Word(<<"m", "a", "n", "g", "e">>, TRUE, "manger", "VERB", "conj")
W_manger == Word(<<"m", "a", "n", "g", "e", "r">>, TRUE, "manger", "VERB", "xcomp")
W_jamais == Word(<<"j", "a", "m", "a", "i", "s">>, TRUE, "jamais", "ADV", "advmod")
W_Mange  == Word(<<"M", "a", "n", "g", "e">>, TRUE, "Mange", "PROPN", "nsubj")

\* a parsed text: the words with the heads the parser chose; a token that is
\* its own head carries the label ROOT, the last token has no trailing space
MkDoc(words, heads) ==
    [i \in DOMAIN words |->
        [text  |-> words[i].text,
         ws    |-> IF i = Len(words) THEN FALSE ELSE words[i].ws,
         lemma |-> words[i].lemma,
         pos   |-> words[i].pos,
         dep   |-> IF heads[i] = i THEN "ROOT" ELSE words[i].dep,
         head  |-> heads[i]]]

\* every head assignment over n tokens that is a forest
Forests(n) == {g \in [1..n -> 1..n] : IsForest(g)}

\* the flat parses: every token its own root, or all tokens under one of them
FlatHeads(n) == {[i \in 1..n |-> i]} \cup {[i \in 1..n |-> r] : r \in 1..n}

\* the words of the vocabulary terms
TermWords == {W_ne, W_pas, W_nulle, W_part, W_c, W_est, W_hyphen, W_ce}

\* the words of the terms that are parsed every possible way: a weak
\* part of speech, a weak always-taken relation, and a content word
TreeWords == {W_c, W_est, W_pas}

\* the languages of MODEL_MAPPING; spa stands for every language without a
\* special case (spa, deu, kor, eng take the same path through the compiler)
Languages == {"fra", "spa"}

-----------------------------------------------------------------------------
(* Pattern compiler *)

\* None: the compiler declines (an empty pattern is as falsy as None)
None == <<>>

NEG_PARTS ==
    { <<"pas">>, <<"plus">>, <<"que">>, <<"jamais">>, <<"guère">>, <<"point">>,
      <<"rien">>, <<"personne">>, <<"aucun">>, <<"nulle", "part">> }

weak_dep == {"cop", "aux", "case", "mark", "det", "expl"}
weak_pos == {"ADP", "DET", "PART", "PRON"}
always_take == {"cop", "aux", "case"}

\* mutant: the identifier forgets the token's position
make_id_NoIndex(i) == "t"

\* f"t{tok.i}" (tok.i is 0-based)
make_id(i) == "t" \o ToString(i - 1)

\* getattr(tok, k.lower() + "_")
TokAttr(tok, k) ==
    CASE k = "LEMMA" -> tok.lemma
      [] k = "POS"   -> tok.pos
      [] k = "DEP"   -> tok.dep

\* {k: getattr(tok, ...) for k in keep if k != "DEP"}
AttrsNoDep(tok, keep) == [k \in keep \ {"DEP"} |-> TokAttr(tok, k)]

\* the child's attrs: the same, plus DEP when it is kept
ChildAttrs(tok, keep) == [k \in keep |-> TokAttr(tok, k)]

\* upward promotion: while the token is weak and has a distinct head
RECURSIVE Promote(_, _)
Promote(doc, root) ==
    IF (doc[root].dep \in weak_dep \/ doc[root].pos \in weak_pos)
       /\ doc[root].head # root
    THEN Promote(doc, doc[root].head)
    ELSE root

\* downward promotion: a weak root of a fragment yields to its first
\* non-weak child, if it has one
Demote(doc, root) ==
    LET kids == Children(doc, root)
        strong == {k \in DOMAIN kids : doc[kids[k]].pos \notin weak_pos}
    IN IF doc[root].pos \in weak_pos
          /\ \A k \in DOMAIN kids : doc[kids[k]].dep \in weak_dep
          /\ strong # {}
       THEN kids[CHOOSE k \in strong : \A m \in strong : k <= m]
       ELSE root

\* `child.head is parent`: equal positions are the same object only when the
\* build keeps one Token object per position (token_identity)
HeadIsParent(doc, child, parent, identity) ==
    doc[child].head = parent /\ identity

\* one pattern node for `child`, found among the children of `parent`
ChildNode(doc, child, parent, id_map, keep, identity) ==
    [LEFT_ID     |-> id_map[parent],
     REL_OP      |-> IF HeadIsParent(doc, child, parent, identity) THEN ">" ELSE ">>",
     RIGHT_ID    |-> id_map[child],
     RIGHT_ATTRS |-> ChildAttrs(doc[child], keep)]

\* the children of `parent` that the traversal takes
TakenChildren(doc, anchor, parent) ==
    SelectSeq(Children(doc, parent),
              LAMBDA c : ~(doc[c].dep \notin always_take /\ c \notin Subtree(doc, anchor)))

\* the breadth-first loop: queue, pattern and id_map as the loop holds them
RECURSIVE BuildPattern(_, _, _, _, _, _, _)
BuildPattern(doc, anchor, queue, pattern, id_map, keep, identity) ==
    IF queue = <<>> THEN pattern
    ELSE LET parent == Head(queue)
             kids   == TakenChildren(doc, anchor, parent)
             ids    == [i \in DOMAIN id_map \cup Range(kids) |->
                            IF i \in Range(kids) THEN make_id(i) ELSE id_map[i]]
             nodes  == [k \in DOMAIN kids |->
                            ChildNode(doc, kids[k], parent, ids, keep, identity)]
         IN BuildPattern(doc, anchor, Tail(queue) \o kids, pattern \o nodes,
                         ids, keep, identity)

\* _create_pattern_for_token
create_pattern_for_token(doc, root, keep, identity) ==
    LET anchor == Demote(doc, Promote(doc, root))
        id_map == [i \in {anchor} |-> make_id(i)]
        first  == [RIGHT_ID    |-> id_map[anchor],
                   RIGHT_ATTRS |-> AttrsNoDep(doc[anchor], keep)]
    IN BuildPattern(doc, anchor, <<anchor>>, <<first>>, id_map, keep, identity)

\* the French "ne X" test
IsSplitNegation(doc) ==
    /\ doc[1].lemma = "ne"
    /\ LemmaTuple(doc, 2, Len(doc)) \in NEG_PARTS

\* mutant: the negation word must be a descendant of ne
NegationPattern_Descendant(doc) ==
    << [RIGHT_ID |-> "ne", RIGHT_ATTRS |-> ("LEMMA" :> "ne")],
       [LEFT_ID |-> "ne", REL_OP |-> ">>", RIGHT_ID |-> "neg2",
        RIGHT_ATTRS |-> ("LEMMA" :> doc[2].lemma)] >>

\* the two-node pattern of a split negation
NegationPattern(doc) ==
    << [RIGHT_ID |-> "ne", RIGHT_ATTRS |-> ("LEMMA" :> "ne")],
       [LEFT_ID |-> "ne", REL_OP |-> ".*", RIGHT_ID |-> "neg2",
        RIGHT_ATTRS |-> ("LEMMA" :> doc[2].lemma)] >>

\* sum(1 for tok in doc if tok.dep_ == "ROOT")
num_roots(doc) == Cardinality({i \in DOMAIN doc : doc[i].dep = "ROOT"})

\* mutant: the two-token case of the hyphen exit is forgotten
IsHyphenFragment_ThreeOnly(doc) == Len(doc) = 3 /\ doc[2].text = <<"-">>

\* the hyphenated-fragment exit
IsHyphenFragment(doc) ==
    \/ Len(doc) = 3 /\ doc[2].text = <<"-">>
    \/ Len(doc) = 2 /\ StartsWithHyphen(doc[2].text)

\* str(doc) == "c'est"
IsCest(doc) == DocStr(doc) = <<"c", "'", "e", "s", "t">>

\* mutant: the copula must be a child of the pronoun
CestPattern_Child ==
    << [RIGHT_ID |-> "ce", RIGHT_ATTRS |-> ("LEMMA" :> "ce")],
       [LEFT_ID |-> "ce", REL_OP |-> ">", RIGHT_ID |-> "etre",
        RIGHT_ATTRS |-> ("LEMMA" :> "être") @@ ("DEP" :> "cop")] >>

CestPattern ==
    << [RIGHT_ID |-> "ce", RIGHT_ATTRS |-> ("LEMMA" :> "ce")],
       [LEFT_ID |-> "ce", REL_OP |-> "$++", RIGHT_ID |-> "etre",
        RIGHT_ATTRS |-> ("LEMMA" :> "être") @@ ("DEP" :> "cop")] >>

\* doc[:].sent.root: the first self-headed token
SentRoot(doc) == CHOOSE i \in DOMAIN doc :
                    /\ doc[i].head = i
                    /\ \A j \in DOMAIN doc : doc[j].head = j => i <= j

\* mutant: the decline checks come before the split-negation override
create_dependency_pattern_for_doc_DeclineFirst(doc, lang, identity) ==
    IF num_roots(doc) > 1 THEN None
    ELSE IF IsHyphenFragment(doc) THEN None
    ELSE IF lang = "fra" /\ IsSplitNegation(doc) THEN NegationPattern(doc)
    ELSE IF lang = "fra" /\ IsCest(doc) THEN CestPattern
    ELSE create_pattern_for_token(doc, SentRoot(doc), {"LEMMA"}, identity)

\* _create_dependency_pattern_for_doc
create_dependency_pattern_for_doc(doc, lang, identity) ==
    IF lang = "fra" /\ IsSplitNegation(doc) THEN NegationPattern(doc)
    ELSE IF num_roots(doc) > 1 THEN None
    ELSE IF IsHyphenFragment(doc) THEN None
    ELSE IF lang = "fra" /\ IsCest(doc) THEN CestPattern
    ELSE create_pattern_for_token(doc, SentRoot(doc), {"LEMMA"}, identity)

\* mutant: the single token is matched by its lemma
SinglePattern_Lemma(doc) ==
    << [RIGHT_ID |-> "single", RIGHT_ATTRS |-> ("LEMMA" :> doc[1].lemma)] >>

\* the pattern of a single-token term
SinglePattern(doc) ==
    << [RIGHT_ID |-> "single", RIGHT_ATTRS |-> ("LOWER" :> Lower(doc[1].text))] >>

\* the structural patterns registered for one term (none, or one)
TermPatterns(doc, lang, identity) ==
    IF Len(doc) = 1 THEN <<SinglePattern(doc)>>
    ELSE LET pat == create_dependency_pattern_for_doc(doc, lang, identity)
         IN IF pat # None THEN <<pat>> ELSE <<>>

\* the term as loaded: the line that the annotator was given
TermOf(doc) == DocStr(doc)

\* mutant: a later term of the same lemma tuple replaces the earlier ones
LemmaAdd_Overwrite(l2t, key, term) ==
    [k \in DOMAIN l2t \cup {key} |-> IF k = key THEN <<term>> ELSE l2t[k]]

\* self.lemma_to_terms[lemma_tuple].append(term)
LemmaAdd(l2t, key, term) ==
    [k \in DOMAIN l2t \cup {key} |->
        IF k = key THEN (IF key \in DOMAIN l2t THEN l2t[key] ELSE <<>>) \o <<term>>
        ELSE l2t[k]]

\* DependencyMatcher.add(key, patterns): patterns of one key accumulate
DepAdd(dm, key, patterns) ==
    IF \E e \in DOMAIN dm : dm[e].key = key
    THEN [e \in DOMAIN dm |->
            IF dm[e].key = key
            THEN [key |-> key, patterns |-> dm[e].patterns \o patterns]
            ELSE dm[e]]
    ELSE Append(dm, [key |-> key, patterns |-> patterns])

\* one iteration of the loop of _create_patterns_and_mappings
AddTerm(reg, doc, lang, identity) ==
    LET pats == TermPatterns(doc, lang, identity)
    IN [lemma_to_terms  |-> LemmaAdd(reg.lemma_to_terms,
                                     LemmaTuple(doc, 1, Len(doc)), TermOf(doc)),
        phrase_patterns |-> Append(reg.phrase_patterns, doc),
        dep_matcher     |-> IF pats # <<>>
                            THEN DepAdd(reg.dep_matcher, TermOf(doc), pats)
                            ELSE reg.dep_matcher]

\* the loop over the vocabulary
RECURSIVE AddTerms(_, _, _, _)
AddTerms(reg, docs, lang, identity) ==
    IF docs = <<>> THEN reg
    ELSE AddTerms(AddTerm(reg, Head(docs), lang, identity), Tail(docs), lang, identity)

EmptyRegistry == [lemma_to_terms |-> <<>>, phrase_patterns |-> <<>>, dep_matcher |-> <<>>]

\* PhraseMatcher.add("MULTIWORD_TERMS", phrase_patterns), attr = LEMMA
PhraseAdd(phrase_patterns) ==
    {LemmaTuple(phrase_patterns[i], 1, Len(phrase_patterns[i])) : i \in DOMAIN phrase_patterns}

-----------------------------------------------------------------------------
(* Dual matcher *)

Term(term, start_char, end_char) ==
    [term |-> term, start_char |-> start_char, end_char |-> end_char]

\* token.idx + len(token.text)
EndChar(doc, i) == Idx(doc, i) + Len(doc[i].text)

\* PhraseMatcher.__call__: every span whose lemmas are a registered sequence
PhraseMatches(pm, doc) ==
    {<<a, b>> \in (DOMAIN doc) \X (DOMAIN doc) :
        a <= b /\ LemmaTuple(doc, a, b) \in pm}

\* the Terms of one phrase match: one per original term of the lemma tuple
SpanTerms(l2t, doc, a, b) ==
    LET key == LemmaTuple(doc, a, b)
    IN IF key \in DOMAIN l2t
       THEN {Term(l2t[key][k], Idx(doc, a), EndChar(doc, b)) : k \in DOMAIN l2t[key]}
       ELSE {}

\* the high-confidence loop
HighConfidence(pm, l2t, doc) ==
    UNION {SpanTerms(l2t, doc, m[1], m[2]) : m \in PhraseMatches(pm, doc)}

\* the value a pattern attribute is compared with
MatchAttr(tok, k) ==
    IF k = "LOWER" THEN Lower(tok.text) ELSE TokAttr(tok, k)

\* RIGHT_ATTRS hold of a token
AttrsHold(attrs, tok) == \A k \in DOMAIN attrs : MatchAttr(tok, k) = attrs[k]

\* the operators of the DependencyMatcher that the compiler emits:
\*   A > B    A is the head of B
\*   A >> B   A is an ancestor of B
\*   A .* B   A precedes B in the same parse tree
\*   A $++ B  B is a right sibling of A: same head, A before B
RelHolds(doc, op, a, b) ==
    CASE op = ">"   -> a # b /\ doc[b].head = a
      [] op = ">>"  -> IsAncestor(doc, a, b)
      [] op = ".*"  -> a < b /\ TreeRoot(doc, a) = TreeRoot(doc, b)
      [] op = "$++" -> a < b /\ doc[a].head = doc[b].head
                             /\ doc[a].head # a /\ doc[b].head # b
      [] OTHER      -> FALSE

\* the position in the pattern of the node named id
NodeIndex(pattern, id) == CHOOSE k \in DOMAIN pattern : pattern[k].RIGHT_ID = id

\* token t can be matched by node k, given the tokens of the earlier nodes
NodeFits(pattern, doc, k, assigned, t) ==
    /\ AttrsHold(pattern[k].RIGHT_ATTRS, doc[t])
    /\ k > 1 => RelHolds(doc, pattern[k].REL_OP,
                         assigned[NodeIndex(pattern, pattern[k].LEFT_ID)], t)

\* every assignment of tokens to the nodes k.. that extends `assigned`,
\* in the order of the token positions
RECURSIVE Assignments(_, _, _, _, _)
Assignments(pattern, doc, k, assigned, t) ==
    IF k > Len(pattern) THEN <<assigned>>
    ELSE IF t > Len(doc) THEN <<>>
    ELSE (IF NodeFits(pattern, doc, k, assigned, t)
          THEN Assignments(pattern, doc, k + 1, Append(assigned, t), 1)
          ELSE <<>>)
         \o Assignments(pattern, doc, k, assigned, t + 1)

\* the matches of the patterns of one key: (key, token_ids), token_ids in
\* the order of the pattern's nodes
RECURSIVE KeyMatches(_, _, _)
KeyMatches(key, patterns, doc) ==
    IF patterns = <<>> THEN <<>>
    ELSE LET found == Assignments(Head(patterns), doc, 1, <<>>, 1)
         IN [m \in DOMAIN found |-> [key |-> key, token_ids |-> found[m]]]
            \o KeyMatches(key, Tail(patterns), doc)

\* DependencyMatcher.__call__
RECURSIVE DepMatches(_, _)
DepMatches(dm, doc) ==
    IF dm = <<>> \/ doc = <<>> THEN <<>>
    ELSE KeyMatches(Head(dm).key, Head(dm).patterns, doc) \o DepMatches(Tail(dm), doc)

SeqMin(s) == CHOOSE x \in Range(s) : \A y \in Range(s) : x <= y
SeqMax(s) == CHOOSE x \in Range(s) : \A y \in Range(s) : x >= y

\* the Term of one structural match: from the first to the last matched token
MatchTerm(doc, m) ==
    Term(m.key, Idx(doc, SeqMin(m.token_ids)), EndChar(doc, SeqMax(m.token_ids)))

\* mutant: every structural match is kept
KeepLow_Always(term_obj, high) == TRUE

\* "only add to low confidence if not already in high confidence"
KeepLow(term_obj, high) == term_obj \notin high

\* the low-confidence loop over dep_matches
RECURSIVE LowConfidence(_, _, _, _)
LowConfidence(doc, matches, high, low) ==
    IF matches = <<>> THEN low
    ELSE LET term_obj == MatchTerm(doc, Head(matches))
         IN LowConfidence(doc, Tail(matches), high,
                          IF KeepLow(term_obj, high) THEN Append(low, term_obj) ELSE low)

\* the Terms of dep_matches, in discovery order
FoundTerms(doc, matches) == [m \in DOMAIN matches |-> MatchTerm(doc, matches[m])]

\* the body of the loop of find_multiword_terms_batch for one doc
DetectTerms(pm, l2t, dm, doc) ==
    LET high == HighConfidence(pm, l2t, doc)
        dep_matches == DepMatches(dm, doc)
    IN [high_confidence |-> high,
        low_confidence  |-> LowConfidence(doc, dep_matches, high, <<>>),
        dep_terms       |-> FoundTerms(doc, dep_matches)]

-----------------------------------------------------------------------------
(* The detector's constructor and find_multiword_terms *)

NoDoc == <<>>
NoTerms == [high_confidence |-> {}, low_confidence |-> <<>>]

\* MultiwordTermDetector.__init__
Construct ==
    /\ pc = "init"
    /\ LET reg == AddTerms(EmptyRegistry, multiword_terms, language_code, token_identity)
       IN /\ lemma_to_terms' = reg.lemma_to_terms
          /\ dep_matcher' = reg.dep_matcher
          /\ phrase_matcher' = PhraseAdd(reg.phrase_patterns)
    /\ pc' = "ready"
    /\ UNCHANGED <<language_code, token_identity, multiword_terms>>
    /\ UNCHANGED matchVars
    /\ UNCHANGED driverVars

\* find_multiword_terms(sentence), doc being the annotator's parse of it
FindMultiwordTerms(doc) ==
    /\ pc = "ready"
    /\ sent_doc' = doc
    /\ LET res == DetectTerms(phrase_matcher, lemma_to_terms, dep_matcher, doc)
       IN /\ detected' = [high_confidence |-> res.high_confidence,
                          low_confidence  |-> res.low_confidence]
          /\ dep_found' = res.dep_terms
    /\ pc' = "returned"
    /\ UNCHANGED detectorVars
    /\ UNCHANGED driverVars

InitIdle ==
    /\ lemma_to_terms = <<>>
    /\ dep_matcher = <<>>
    /\ phrase_matcher = {}
    /\ sent_doc = NoDoc
    /\ detected = NoTerms
    /\ dep_found = <<>>
    /\ infile = [sentences |-> 0, blank_lines |-> FALSE, invalid |-> 0]
    /\ lineno = 0
    /\ batch_sentences = <<>>
    /\ outfile = <<>>

-----------------------------------------------------------------------------
(* Compiler specification: a one-term vocabulary, the term drawn from the   *)
(* flat parses of every word sequence and from every parse of the          *)
(* sequences over TreeWords; the detector then scans the term's own text.  *)

InitCompile ==
    /\ pc = "init"
    /\ language_code \in Languages
    /\ token_identity \in BOOLEAN
    /\ \E n \in 1..MaxTermLen :
          \/ \E ws \in [1..n -> TermWords] : \E h \in FlatHeads(n) :
                multiword_terms = <<MkDoc(ws, h)>>
          \/ \E ws \in [1..n -> TreeWords] : \E h \in Forests(n) :
                multiword_terms = <<MkDoc(ws, h)>>
    /\ InitIdle

FindOwnText == FindMultiwordTerms(multiword_terms[1])

NextCompile == Construct \/ FindOwnText

SpecCompile == InitCompile /\ [][NextCompile]_vars

-----------------------------------------------------------------------------
(* Matcher specification: a French or Spanish detector over a vocabulary of *)
(* up to MaxTerms terms scans one sentence: any sentence of up to           *)
(* MaxSentLen tokens, or the example sentence of the specification.         *)

\* the vocabulary terms, as the annotator parses them: a split negation and
\* two single-word terms with one lemma
T_ne_jamais == MkDoc(<<W_ne, W_jamais>>, <<2, 2>>)
T_mange     == MkDoc(<<W_mange>>, <<1>>)
T_manger    == MkDoc(<<W_manger>>, <<1>>)

MatchTerms == {T_ne_jamais, T_mange, T_manger}

SentWords == {W_Il, W_ne, W_mange, W_jamais, W_Mange}

\* the parse of a sentence: every token hangs under the first verb, or under
\* the first token when there is no verb
SentHeads(words) ==
    LET verbs == {i \in DOMAIN words : words[i].pos = "VERB"}
        r == IF verbs = {} THEN 1 ELSE CHOOSE i \in verbs : \A j \in verbs : i <= j
    IN [i \in DOMAIN words |-> r]

MkSent(words) == MkDoc(words, SentHeads(words))

InitMatch ==
    /\ pc = "init"
    /\ language_code \in Languages
    /\ token_identity \in BOOLEAN
    /\ \E n \in 1..MaxTerms : multiword_terms \in [1..n -> MatchTerms]
    /\ InitIdle

FindInSentence ==
    /\ pc = "ready"
    /\ \E n \in 0..MaxSentLen : \E ws \in [1..n -> SentWords] :
          FindMultiwordTerms(MkSent(ws))

\* "Il ne mange jamais": ne and jamais are dependents of mange
ExampleSentence == MkSent(<<W_Il, W_ne, W_mange, W_jamais>>)

FindInExample == FindMultiwordTerms(ExampleSentence)

NextMatch == Construct \/ FindInSentence \/ FindInExample

SpecMatch == InitMatch /\ [][NextMatch]_vars

-----------------------------------------------------------------------------
(* Batch driver: process_sentences.  The sentences file is described by the *)
(* number of its sentences, whether a blank line follows every sentence,   *)
(* and which sentence (if any) is a line that is not valid JSON.  Sentence *)
(* k stands for the k-th JSON string of the file.                          *)

batch_size == 1000

\* the number of lines of the file
NumLines(f) == IF f.blank_lines THEN 2 * f.sentences ELSE f.sentences

\* line p of the file
LineAt(f, p) ==
    IF f.blank_lines /\ p % 2 = 0 THEN [kind |-> "blank", sentence |-> 0]
    ELSE LET k == IF f.blank_lines THEN (p + 1) \div 2 ELSE p
         IN IF k = f.invalid THEN [kind |-> "invalid", sentence |-> k]
            ELSE [kind |-> "json", sentence |-> k]

\* the annotator's parse of sentence k: an empty string, the example
\* sentence, or a capitalised word
SentenceDoc(k) ==
    CASE k % 3 = 0 -> <<>>
      [] k % 3 = 1 -> ExampleSentence
      [] OTHER     -> MkSent(<<W_Mange>>)

\* list(set(term.term for term in terms))
TermNames(terms) == {t.term : t \in terms}

\* the output record of one sentence
RecordOf(sentence, doc, terms) ==
    [sentence        |-> sentence,
     high_confidence |-> TermNames(terms.high_confidence),
     low_confidence  |-> TermNames(Range(terms.low_confidence)),
     doc             |-> [i \in DOMAIN doc |-> doc[i].text]]

\* find_multiword_terms_batch on the batch, and the records written for it
BatchRecords(pm, l2t, dm, batch) ==
    LET result == [r \in 0..2 |-> DetectTerms(pm, l2t, dm, SentenceDoc(r))]
    IN [k \in DOMAIN batch |->
           RecordOf(batch[k], SentenceDoc(batch[k]), result[batch[k] % 3])]

\* "process batch when it's full"
BatchFull(batch) == Len(batch) >= batch_size

\* mutant: the sentences left after the last full batch are not written
FlushRemaining_Skip(out, batch, pm, l2t, dm) == out

\* "process remaining sentences": what the file holds after the loop
FlushRemaining(out, batch, pm, l2t, dm) ==
    IF batch # <<>> THEN out \o BatchRecords(pm, l2t, dm, batch) ELSE out

Reading == pc = "ready" /\ lineno < NumLines(infile)

\* `if not line.strip(): continue`
SkipBlank ==
    /\ Reading
    /\ LineAt(infile, lineno + 1).kind = "blank"
    /\ lineno' = lineno + 1
    /\ UNCHANGED <<pc, infile, batch_sentences, outfile>>
    /\ UNCHANGED detectorVars
    /\ UNCHANGED matchVars

\* one iteration of the loop on a line that holds a JSON string
ReadSentence ==
    /\ Reading
    /\ LineAt(infile, lineno + 1).kind = "json"
    /\ lineno' = lineno + 1
    /\ LET batch == Append(batch_sentences, LineAt(infile, lineno + 1).sentence)
       IN IF BatchFull(batch)
          THEN /\ outfile' = outfile \o BatchRecords(phrase_matcher, lemma_to_terms,
                                                     dep_matcher, batch)
               /\ batch_sentences' = <<>>
          ELSE /\ outfile' = outfile
               /\ batch_sentences' = batch
    /\ UNCHANGED <<pc, infile>>
    /\ UNCHANGED detectorVars
    /\ UNCHANGED matchVars

\* json.loads raises on the line: nothing catches it, process_sentences ends
ReadInvalid ==
    /\ Reading
    /\ LineAt(infile, lineno + 1).kind = "invalid"
    /\ lineno' = lineno + 1
    /\ pc' = "failed"
    /\ UNCHANGED <<infile, batch_sentences, outfile>>
    /\ UNCHANGED detectorVars
    /\ UNCHANGED matchVars

\* the end of the file: the remaining sentences are processed
Finish ==
    /\ pc = "ready"
    /\ lineno = NumLines(infile)
    /\ outfile' = FlushRemaining(outfile, batch_sentences, phrase_matcher,
                                 lemma_to_terms, dep_matcher)
    /\ pc' = "done"
    /\ UNCHANGED <<infile, lineno, batch_sentences>>
    /\ UNCHANGED detectorVars
    /\ UNCHANGED matchVars

\* the sizes of the sentences file: around every multiple of the batch size
FileSizes == {j * batch_size + d : j \in 0..MaxBatches, d \in {0, 1, batch_size - 1}}

InitDriver ==
    /\ pc = "init"
    /\ language_code = "fra"
    /\ token_identity \in BOOLEAN
    /\ multiword_terms = <<T_ne_jamais, T_mange>>
    /\ lemma_to_terms = <<>>
    /\ dep_matcher = <<>>
    /\ phrase_matcher = {}
    /\ sent_doc = NoDoc
    /\ detected = NoTerms
    /\ dep_found = <<>>
    /\ \E n \in FileSizes : \E b \in BOOLEAN : \E bad \in {0, 2, batch_size + 1} :
          /\ bad <= n
          /\ infile = [sentences |-> n, blank_lines |-> b, invalid |-> bad]
    /\ lineno = 0
    /\ batch_sentences = <<>>
    /\ outfile = <<>>

NextDriver == Construct \/ SkipBlank \/ ReadSentence \/ ReadInvalid \/ Finish

SpecDriver == InitDriver /\ [][NextDriver]_vars

-----------------------------------------------------------------------------
(* Properties of the compiler (SpecCompile) *)

\* the term being compiled and what the constructor registered for it
TheTerm == multiword_terms[1]
Compiled == pc # "init"
RegisteredPatterns ==
    IF \E e \in DOMAIN dep_matcher : dep_matcher[e].key = TermOf(TheTerm)
    THEN dep_matcher[CHOOSE e \in DOMAIN dep_matcher :
                        dep_matcher[e].key = TermOf(TheTerm)].patterns
    ELSE <<>>

HasParent(node) == "LEFT_ID" \in DOMAIN node

\* first lemma "ne", the remaining lemmas together one member of the closed set
NegationShaped(doc) ==
    /\ Len(doc) >= 2
    /\ doc[1].lemma = "ne"
    /\ [k \in 1..(Len(doc) - 1) |-> doc[k + 1].lemma] \in NEG_PARTS

CaughtByNegation == language_code = "fra" /\ NegationShaped(TheTerm)

MultiRoot(doc) == Cardinality({i \in DOMAIN doc : doc[i].head = i}) > 1

\* the own text of the term gives it a high-confidence Term over the whole text
ExactOnOwnText ==
    /\ LemmaTuple(TheTerm, 1, Len(TheTerm)) \in phrase_matcher
    /\ LemmaTuple(TheTerm, 1, Len(TheTerm)) \in DOMAIN lemma_to_terms
    /\ TermOf(TheTerm) \in Range(lemma_to_terms[LemmaTuple(TheTerm, 1, Len(TheTerm))])
    /\ pc = "returned" =>
          Term(TermOf(TheTerm), 0, Len(DocStr(TheTerm))) \in detected.high_confidence

\* C6 as stated: a 2- or 3-token term whose second token is a bare hyphen or
\* starts with a hyphen, or a term with several roots, gets no structural
\* pattern and is still matched exactly.
C6_Original ==
    (/\ Compiled
     /\ Len(TheTerm) >= 2
     /\ ~CaughtByNegation
     /\ \/ MultiRoot(TheTerm)
        \/ /\ Len(TheTerm) \in {2, 3}
           /\ TheTerm[2].text = <<"-">> \/ TheTerm[2].text[1] = "-")
    => (RegisteredPatterns = <<>> /\ ExactOnOwnText)

\* C6 (amended): a multi-token term not caught by the split-negation override
\* gets no structural pattern when its parse has more than one root, or it has
\* 3 tokens and the second is a bare hyphen, or it has 2 tokens and the second
\* starts with a hyphen; it is still registered in the lemma index and the
\* exact matcher, and scanning its own text yields a high-confidence Term.
C6_GracefulDecline ==
    (/\ Compiled
     /\ Len(TheTerm) >= 2
     /\ ~CaughtByNegation
     /\ \/ MultiRoot(TheTerm)
        \/ Len(TheTerm) = 3 /\ TheTerm[2].text = <<"-">>
        \/ Len(TheTerm) = 2 /\ TheTerm[2].text[1] = "-")
    => (RegisteredPatterns = <<>> /\ ExactOnOwnText)

\* a declined two-token hyphen fragment with a single root, scanned
C6_Witness ==
    /\ pc = "returned"
    /\ ~CaughtByNegation
    /\ Len(TheTerm) = 2 /\ TheTerm[2].text[1] = "-" /\ ~MultiRoot(TheTerm)
    /\ RegisteredPatterns = <<>>
    /\ detected.high_confidence # {}

\* the two-node pattern of a split negation, with relation op
NegationNodes(doc, op) ==
    << [RIGHT_ID |-> "ne", RIGHT_ATTRS |-> ("LEMMA" :> "ne")],
       [LEFT_ID |-> "ne", REL_OP |-> op, RIGHT_ID |-> "neg2",
        RIGHT_ATTRS |-> ("LEMMA" :> doc[2].lemma)] >>

\* C8 as stated: in French a split negation compiles to root 'ne' and a child
\* related by ANCESTOR_DESCENDANT (>>).
C8_Original ==
    (Compiled /\ language_code = "fra" /\ NegationShaped(TheTerm))
    => RegisteredPatterns = <<NegationNodes(TheTerm, ">>")>>

\* C8 (amended): in French every multi-token term whose first lemma is 'ne' and
\* whose remaining lemmas together are a member of the closed negation set
\* compiles to exactly the two-node pattern root = lemma 'ne', child = lemma of
\* the term's second token, related by '.*' (the child's token follows the
\* token matched by 'ne' in the same parse, whatever its governor); this holds
\* also when the parse has several roots or is a hyphen fragment, and no other
\* language ever produces a pattern with the node 'neg2'.
C8_SplitNegation ==
    /\ (Compiled /\ language_code = "fra" /\ NegationShaped(TheTerm))
       => RegisteredPatterns = <<NegationNodes(TheTerm, ".*")>>
    /\ (Compiled /\ language_code # "fra")
       => \A p \in DOMAIN RegisteredPatterns :
             \A k \in DOMAIN RegisteredPatterns[p] :
                RegisteredPatterns[p][k].RIGHT_ID \notin {"ne", "neg2"}

\* a French three-token negation with several roots, compiled by the override
C8_Witness ==
    /\ Compiled /\ language_code = "fra"
    /\ NegationShaped(TheTerm) /\ Len(TheTerm) = 3 /\ MultiRoot(TheTerm)
    /\ Len(RegisteredPatterns) = 1
    /\ RegisteredPatterns[1][2].RIGHT_ATTRS["LEMMA"] = "nulle"

\* the fixed pattern of c'est, with relation op
CestNodes(op) ==
    << [RIGHT_ID |-> "ce", RIGHT_ATTRS |-> ("LEMMA" :> "ce")],
       [LEFT_ID |-> "ce", REL_OP |-> op, RIGHT_ID |-> "etre",
        RIGHT_ATTRS |-> ("LEMMA" :> "être") @@ ("DEP" :> "cop")] >>

\* the term passes the decline checks and is the surface form c'est
CestCase ==
    /\ Compiled /\ language_code = "fra"
    /\ Len(TheTerm) >= 2
    /\ DocStr(TheTerm) = <<"c", "'", "e", "s", "t">>
    /\ ~MultiRoot(TheTerm)

\* C9 as stated: c'est compiles to root 'ce' and a DIRECT_CHILD (>) node
\* with lemma 'être' and label cop.
C9_Original == CestCase => RegisteredPatterns = <<CestNodes(">")>>

\* C9 (amended): in French a term whose surface form is exactly c'est and that
\* passes the decline checks compiles to the fixed two-node pattern root =
\* lemma 'ce', second node = lemma 'être' with label cop, related by '$++'
\* (the second node's token is a right sibling of the root's token: it has the
\* same governor and comes later in the sentence).
C9_Cest == CestCase => RegisteredPatterns = <<CestNodes("$++")>>

\* c'est compiled in French, with est as the root of the term's own parse
C9_Witness == CestCase /\ TheTerm[2].head = 2 /\ Len(RegisteredPatterns) = 1

\* a pattern is a rooted tree of uniquely named nodes
RootedTree(pat) ==
    /\ Len(pat) >= 1
    /\ ~HasParent(pat[1])
    /\ \A k \in 2..Len(pat) :
          /\ HasParent(pat[k])
          /\ \E j \in 1..(k - 1) : pat[j].RIGHT_ID = pat[k].LEFT_ID
    /\ \A j, k \in DOMAIN pat : j # k => pat[j].RIGHT_ID # pat[k].RIGHT_ID

\* C10: every structural pattern the compiler registers (single-token,
\* split-negation, c'est or generic) is a rooted tree: only the first node has
\* no parent, every other node's LEFT_ID names a node added before it, and no
\* two nodes share a RIGHT_ID.
C10_RootedTree ==
    \A p \in DOMAIN RegisteredPatterns : RootedTree(RegisteredPatterns[p])

\* a generic pattern of three nodes, the third hanging under the second
C10_Witness ==
    /\ Compiled
    /\ Len(RegisteredPatterns) = 1
    /\ Len(RegisteredPatterns[1]) = 3
    /\ RegisteredPatterns[1][1].RIGHT_ID \notin {"ne", "ce", "single"}
    /\ RegisteredPatterns[1][3].LEFT_ID = RegisteredPatterns[1][2].RIGHT_ID

\* the term takes the generic clause-head construction: several tokens, no
\* override, no decline
GenericCase ==
    /\ Compiled
    /\ Len(TheTerm) >= 2
    /\ ~CaughtByNegation
    /\ ~MultiRoot(TheTerm)
    /\ ~(Len(TheTerm) = 3 /\ TheTerm[2].text = <<"-">>)
    /\ ~(Len(TheTerm) = 2 /\ TheTerm[2].text[1] = "-")
    /\ ~(language_code = "fra" /\ DocStr(TheTerm) = <<"c", "'", "e", "s", "t">>)

\* the root of the term's own parse, and the token a node identifier names
ParseRoot == CHOOSE i \in DOMAIN TheTerm : TheTerm[i].head = i
TokenOf(id) == CHOOSE i \in DOMAIN TheTerm : make_id(i) = id

\* the token the generic pattern is anchored at
Anchor == TokenOf(RegisteredPatterns[1][1].RIGHT_ID)

\* the upward loop leaves the parse root alone; the anchor is the parse root
\* or one of its children; the pattern has one node per token of the anchor's
\* subtree and none for another token; every later node hangs under the node
\* of its syntactic head
AnchorAndCoverage ==
    /\ Len(RegisteredPatterns) = 1
    /\ Promote(TheTerm, ParseRoot) = ParseRoot
    /\ Anchor = ParseRoot \/ TheTerm[Anchor].head = ParseRoot
    /\ LET pat == RegisteredPatterns[1]
       IN /\ {pat[k].RIGHT_ID : k \in DOMAIN pat}
                = {make_id(i) : i \in Subtree(TheTerm, Anchor)}
          /\ Len(pat) = Cardinality(Subtree(TheTerm, Anchor))
          /\ \A k \in 2..Len(pat) :
                pat[k].LEFT_ID = make_id(TheTerm[TokenOf(pat[k].RIGHT_ID)].head)

\* C11 as stated: in the generic construction the upward loop never moves the
\* anchor, the anchor is the parse root or one of its direct children, the
\* pattern has exactly one node per token of the anchor's subtree and no
\* other, and every non-root node is related by DIRECT_CHILD (>) to the node
\* of its syntactic head, never by ANCESTOR_DESCENDANT (>>).
C11_Original ==
    GenericCase =>
        /\ AnchorAndCoverage
        /\ \A k \in 2..Len(RegisteredPatterns[1]) :
              RegisteredPatterns[1][k].REL_OP = ">"

\* what the construction does in every build: anchor and coverage as stated,
\* the relation being > when `child.head is parent` holds for a direct child
\* and >> when the head is handed out as another object
C11_AsBuilt ==
    GenericCase =>
        /\ AnchorAndCoverage
        /\ \A k \in 2..Len(RegisteredPatterns[1]) :
              RegisteredPatterns[1][k].REL_OP = IF token_identity THEN ">" ELSE ">>"

\* a weak root demoted to its child, whose own dependent is in the pattern
\* while the root is not
C11_Witness ==
    /\ GenericCase
    /\ Anchor # ParseRoot
    /\ Len(RegisteredPatterns[1]) = 2
    /\ Len(TheTerm) = 3


-----------------------------------------------------------------------------
(* Properties of the dual matcher (SpecMatch) *)

Returned == pc = "returned"
Low == detected.low_confidence
High == detected.high_confidence

\* the character offset of token i of the scanned sentence and of its end
StartOf(i) == Len(Concat([k \in 1..(i - 1) |-> TextWithWs(sent_doc[k])]))
EndOf(i) == StartOf(i) + Len(sent_doc[i].text)

\* C1: no Term triple is in both high_confidence and low_confidence, and
\* low_confidence is the structural matches, in discovery order, without
\* those whose triple is an exact match.
C1_Disjoint ==
    Returned =>
        /\ \A k \in DOMAIN Low : Low[k] \notin High
        /\ Low = SelectSeq(dep_found, LAMBDA t : t \notin High)

\* a structural match was dropped as an exact match, another one was kept
C1_Witness ==
    /\ Returned
    /\ \E k \in DOMAIN dep_found : dep_found[k] \in High
    /\ Low # <<>>

\* C2: for every vocabulary term and every span of the sentence whose lemmas
\* are the lemmas of the term, high_confidence holds a Term with the term's
\* text from the first token's offset to the end of the last token; the same
\* holds for every term text registered under a key of lemma_to_terms.
C2_ExactComplete ==
    Returned =>
        \A a, b \in DOMAIN sent_doc :
            a <= b =>
                LET lemmas == [k \in 1..(b - a + 1) |-> sent_doc[a + k - 1].lemma]
                IN /\ \A d \in DOMAIN multiword_terms :
                        lemmas = [k \in DOMAIN multiword_terms[d] |->
                                     multiword_terms[d][k].lemma]
                        => Term(DocStr(multiword_terms[d]), StartOf(a), EndOf(b)) \in High
                   /\ lemmas \in DOMAIN lemma_to_terms
                        => \A k \in DOMAIN lemma_to_terms[lemmas] :
                              Term(lemma_to_terms[lemmas][k], StartOf(a), EndOf(b)) \in High

\* two different terms with one lemma sequence, both reported for one span
C2_Witness ==
    /\ Returned
    /\ \E s, t \in High :
          s.term # t.term /\ s.start_char = t.start_char /\ s.end_char = t.end_char

\* the sentence Il ne mange jamais, ne and jamais both dependents of mange
IlNeMangeJamais ==
    /\ Len(sent_doc) = 4
    /\ [k \in 1..4 |-> sent_doc[k].text] =
          << <<"I", "l">>, <<"n", "e">>, <<"m", "a", "n", "g", "e">>,
             <<"j", "a", "m", "a", "i", "s">> >>
    /\ sent_doc[2].lemma = "ne" /\ sent_doc[4].lemma = "jamais"
    /\ sent_doc[2].head = 3 /\ sent_doc[4].head = 3

\* the vocabulary terms whose lemmas are (ne, jamais)
NeJamaisTerms ==
    {d \in DOMAIN multiword_terms :
        [k \in DOMAIN multiword_terms[d] |-> multiword_terms[d][k].lemma]
            = <<"ne", "jamais">>}

\* C3: in French, with a term of lemmas (ne, jamais), the sentence
\* Il ne mange jamais yields a low-confidence Term for the term from the start
\* of ne (offset 3) to the end of jamais (offset 18), and no high-confidence
\* Term for it.
C3_SplitNegationExample ==
    (Returned /\ language_code = "fra" /\ IlNeMangeJamais) =>
        \A d \in NeJamaisTerms :
            /\ Term(DocStr(multiword_terms[d]), 3, 18) \in Range(Low)
            /\ \A t \in High : t.term # DocStr(multiword_terms[d])

\* the example, scanned by a French detector that knows ne jamais
C3_Witness ==
    /\ Returned /\ language_code = "fra" /\ IlNeMangeJamais
    /\ NeJamaisTerms # {}
    /\ Low # <<>>

\* C7: for a vocabulary term of one token, every sentence token with the same
\* lower-cased surface form yields a Term for the term over exactly that
\* token, in low_confidence unless that triple is in high_confidence.
C7_SingleToken ==
    Returned =>
        \A d \in DOMAIN multiword_terms : \A i \in DOMAIN sent_doc :
            (/\ Len(multiword_terms[d]) = 1
             /\ Lower(sent_doc[i].text) = Lower(multiword_terms[d][1].text))
            => LET t == Term(DocStr(multiword_terms[d]), StartOf(i), EndOf(i))
               IN (t \in High) # (t \in Range(Low))

\* a capitalised token with another lemma and part of speech, matched by the
\* lower-case term in low_confidence only
C7_Witness ==
    /\ Returned
    /\ \E d \in DOMAIN multiword_terms : \E i \in DOMAIN sent_doc :
          /\ Len(multiword_terms[d]) = 1
          /\ sent_doc[i].text # multiword_terms[d][1].text
          /\ sent_doc[i].lemma # multiword_terms[d][1].lemma
          /\ Term(DocStr(multiword_terms[d]), StartOf(i), EndOf(i)) \in Range(Low)


-----------------------------------------------------------------------------
(* Properties of the batch driver (SpecDriver) *)

\* the sentences of the lines lo..hi that are not blank, in file order
RECURSIVE SentencesIn(_, _, _)
SentencesIn(f, lo, hi) ==
    IF lo > hi THEN <<>>
    ELSE IF lo = hi
    THEN (IF LineAt(f, lo).kind = "blank" THEN <<>> ELSE <<LineAt(f, lo).sentence>>)
    ELSE LET mid == (lo + hi) \div 2
         IN SentencesIn(f, lo, mid) \o SentencesIn(f, mid + 1, hi)

Written == [k \in DOMAIN outfile |-> outfile[k].sentence]

\* C4: when process_sentences returns, the output holds one record per
\* non-blank input line, the k-th record for the k-th such line (so no
\* sentence is written twice and none is left unwritten), whether the number
\* of sentences is zero, a multiple of the batch size or not.
C4_NoDataLoss ==
    pc = "done" =>
        /\ Len(outfile) = infile.sentences
        /\ \A k \in DOMAIN outfile : outfile[k].sentence = k
        /\ Written = SentencesIn(infile, 1, NumLines(infile))

\* a file of one full batch and one more sentence, blank lines in between
C4_Witness ==
    /\ pc = "done"
    /\ infile.sentences = batch_size + 1
    /\ infile.blank_lines
    /\ Len(outfile) = batch_size + 1
    /\ batch_sentences # <<>>

\* C5 as stated: when the run ends, with or without a failing line, every
\* other sentence of the file has its output record, and the record of an
\* empty sentence has no terms.
C5_FailureIsolated ==
    pc \in {"done", "failed"} =>
        /\ \A k \in 1..infile.sentences :
              k # infile.invalid => \E r \in DOMAIN outfile : outfile[r].sentence = k
        /\ \A r \in DOMAIN outfile :
              outfile[r].doc = <<>> =>
                 outfile[r].high_confidence = {} /\ outfile[r].low_confidence = {}

====
